---- MODULE Spec2Model ----
(***************************************************************************)
(* Workflow orchestration core of the LeadPilot SDR agent.                 *)
(*                                                                         *)
(* The specifications of this module:                                      *)
(*   SpecGuard    - one SDR run's session state, the phone-call and email  *)
(*                  tools and the duplicate-call guard around them;        *)
(*   SpecBroker   - the HumanInteractionManager registry, the              *)
(*                  human_creation coroutines that suspend on it, and the  *)
(*                  inbound endpoint;                                      *)
(*   SpecCancel   - SpecBroker with SDRAgentExecutor.cancel and the        *)
(*                  cancellation of the awaiting task;                     *)
(*   SpecLoop     - SpecCreatorAgent, the refinement loop (SpecGate: the   *)
(*                  same loop for each value of 'quality_status');         *)
(*   SpecPipeline - ConversationClassifierAgent, SDRRouter,                *)
(*                  post_results_callback and the end of execute().        *)
(*   SpecParse    - safe_json_parse of the post-run callbacks;             *)
(*   SpecTracking - the function-call tracking of SDRAgentExecutor for     *)
(*                  two runs on one executor;                              *)
(*   SpecUi       - the UI client: lead-finding switch, agent_callback     *)
(*                  and the relay of human input;                          *)
(*   SpecAnalyzer - one run of the lead manager's EmailAnalyzer;           *)
(*   SpecTracker  - EmailReplyTracker's periodic check and force_check.    *)
(* Every action is one atomic segment of the asyncio event loop: the code  *)
(* between two points where a coroutine really yields.                     *)
(***************************************************************************)
EXTENDS Integers, Sequences, FiniteSets, TLC

VARIABLES
    \* ---- one SDR run (SpecGuard) ----
    phase,                     \* position of the run in the SDRAgent sequence
    phone_valid,               \* whether state['business_data'] holds a valid US number
    entries,                   \* how many times execute() entered this session
    session_state,             \* the ADK session state keys the guards read
    completed_function_calls,  \* SDRAgentExecutor._completed_function_calls
    phone_executions,          \* executions of phone_call whose call completed (status done)
    email_sends,               \* successful send_email executions
    turn_invocations,          \* phone tool invocations since call_result was last stored
    turn_executions,           \* runs of phone_call since call_result was last stored
    turn_returns,              \* values returned to those call sites, in order
    last_return,               \* what the latest tool invocation saw and returned
    \* ---- Human Interaction Broker (SpecBroker) ----
    pending_requests,          \* HumanInteractionManager._pending_requests
    active_sessions,           \* HumanInteractionManager._active_sessions
    calls,                     \* the human_creation coroutines
    state,                     \* tool_context.state of each run
    next_id,                   \* source of fresh request ids (uuid4)
    resolved,                  \* per request id: the urls of the submissions that succeeded
    \* ---- the A2A task and the composite agents ----
    task_state,                \* TaskUpdater: the A2A task state of each run
    loop,                      \* SpecCreatorAgent (LoopAgent) and the state keys it touches
    pipeline,                  \* the SDRAgent sequence from the classifier to the callback
    \* ---- parsing, tracking and the services around the agents ----
    parse,                     \* one application of safe_json_parse
    tracking,                  \* the session states of the runs one SDRAgentExecutor serves
    ui,                        \* app_state of the UI client and its lead-finding tasks
    analyzer,                  \* one run of EmailAnalyzer
    tracker                    \* EmailReplyTracker and the coroutines that check replies

guardVars == <<phase, phone_valid, entries, session_state, completed_function_calls,
               phone_executions, email_sends, turn_invocations,
               turn_executions, turn_returns, last_return>>

brokerVars == <<pending_requests, active_sessions, calls, state,
                next_id, resolved>>

workflowVars == <<task_state, loop, pipeline>>

serviceVars == <<parse, tracking, ui, analyzer, tracker>>

vars == <<phase, phone_valid, entries, session_state, completed_function_calls,
          phone_executions, email_sends, turn_invocations,
          turn_executions, turn_returns, last_return,
          pending_requests, active_sessions, calls, state,
          next_id, resolved, task_state, loop, pipeline,
          parse, tracking, ui, analyzer, tracker>>

(***************************************************************************)
(* Bounds                                                                  *)
(***************************************************************************)
MaxInvocations == 2     \* tool invocations the model follows per agent turn
MaxEntries == 2         \* times execute() is entered for the same session
Timeout == 2            \* timeout of wait_for_human_response, scaled down from 600 s

(***************************************************************************)
(* Program constants                                                       *)
(***************************************************************************)
MaxRetries == 3         \* send_ui_notification(max_retries=3)
PollInterval == 1       \* asyncio.sleep(1) in wait_for_human_response
GraceDelay == 2         \* asyncio.sleep(2) before cleanup_request
DuplicateDelay == 2     \* asyncio.sleep(2) on a duplicate request
TimeoutBackoff == 1     \* asyncio.sleep(1) after httpx.TimeoutException
SessionModulus == 1000000

(***************************************************************************)
(* Session state values.  A value is absent, a string, or a dict; of a     *)
(* dict only the keys the guards read are kept: 'status' ("" when the key  *)
(* is missing) and the length of 'transcript'.                             *)
(***************************************************************************)
Absent == [kind |-> "absent", status |-> "", transcript |-> 0]

Str(s) == [kind |-> "str", status |-> s, transcript |-> 0]

Dict(s, n) == [kind |-> "dict", status |-> s, transcript |-> n]

\* {"call_result": {...}} / {"email_sent_result": {...}}: a dict whose only
\* top-level key is the output key, so it has neither 'status' nor 'transcript'
WrappedDict == Dict("", 0)

(***************************************************************************)
(* Tools and the duplicate-call guard                                      *)
(***************************************************************************)
\* FunctionTool(func=phone_call): a function tool is known to the framework,
\* to the callbacks (tool.name) and in function-call events (fc.name) by the
\* name of the function it wraps
phone_call_tool == [name |-> "phone_call"]

send_email_with_attachment_tool == [name |-> "send_email_with_attachment"]

\* the allow-list of prevent_duplicate_call_callback
GuardedToolNames == {"phone_call_tool", "phone_call_tool_test"}

\* the test both halves of the guard apply to a stored call_result
call_completed(call_result) ==
    /\ call_result.kind = "dict"
    /\ \/ call_result.status \in {"done", "completed"}
       \/ call_result.transcript > 0

\* before_tool_callback of OutreachCallerAgent: skip = TRUE stands for the
\* returned {"result": call_result}, skip = FALSE for None (run the tool)
prevent_duplicate_call_callback(tool_name, ctx_state, sess_state) ==
    IF tool_name \notin GuardedToolNames
    THEN [skip |-> FALSE, result |-> Absent]
    ELSE IF ctx_state.call_result.kind # "absent" /\ call_completed(ctx_state.call_result)
    THEN [skip |-> TRUE, result |-> ctx_state.call_result]
    ELSE IF sess_state.call_result.kind # "absent" /\ call_completed(sess_state.call_result)
    THEN [skip |-> TRUE, result |-> sess_state.call_result]
    ELSE [skip |-> FALSE, result |-> Absent]

\* what _make_call can return: its result dict with a terminal status, with
\* or without transcript turns, or with an error status
MakeCallReturns ==
    { Dict("done", 1), Dict("done", 0), Dict("failed", 1), Dict("error", 0) }

\* phone_call(business_data, proposal): a number that fails
\* validate_us_phone_number yields the error string, otherwise the call is
\* made and outcome is what _make_call returns this time
phone_call(valid, outcome) ==
    IF valid THEN outcome ELSE Str("Try another phone number or format")

PhoneCallReturns == { phone_call(v, o) : v \in BOOLEAN, o \in MakeCallReturns }

\* what send_email can return
SendEmailReturns == { Dict("success", 0), Dict("failed", 0) }

\* the check at the top of send_email_with_attachment
email_already_sent(existing) ==
    /\ existing.kind = "dict"
    /\ existing.status = "success"

\* send_email_with_attachment(crafted_email, attachment_path, tool_context):
\* returns the stored result when one says success, else sends and stores a
\* successful result.  outcome is what send_email returns this time.
send_email_with_attachment(ctx_state, outcome) ==
    IF email_already_sent(ctx_state.email_sent_result)
    THEN [sent |-> FALSE, value |-> ctx_state.email_sent_result, state |-> ctx_state]
    ELSE [sent |-> outcome.status = "success",
          value |-> outcome,
          state |-> IF outcome.status = "success"
                    THEN [ctx_state EXCEPT !.email_sent_result = outcome]
                    ELSE ctx_state]

\* SDRAgentExecutor.execute, the branch for a function-call part of an event:
\* a call already in _completed_function_calls is skipped, otherwise it is
\* added and the session state keys are set by function name.  All calls of
\* a tool in one run carry the same arguments, so the id is the name.
track_function_call(function_name, completed, sess) ==
    IF function_name \in completed
    THEN [completed |-> completed, state |-> sess]
    ELSE [completed |-> completed \cup {function_name},
          state |-> IF function_name = "phone_call"
                    THEN [sess EXCEPT !.call_result = Str("completed")]
                    ELSE IF function_name = "gmail_service_account_tool"
                    THEN [sess EXCEPT !.email_sent_result = Str("completed")]
                    ELSE sess]

\* what the framework stores under an agent's output_key when the agent gives
\* its final response: the response text, which the prompts ask to be the
\* tool result wrapped under the output key; the text is the language
\* model's, so the bare tool result is admitted as well
AgentOutputs(tool_value) ==
    { Str("final response text"), WrappedDict } \cup
    (IF tool_value.kind = "dict" THEN {tool_value} ELSE {})

AllAgentOutputs ==
    UNION { AgentOutputs(v) : v \in PhoneCallReturns \cup SendEmailReturns }

NoReturn ==
    [tool |-> "none", precached |-> FALSE, executed |-> FALSE,
     value |-> Absent, cached |-> Absent]

(***************************************************************************)
(* SpecGuard: one SDR run                                                  *)
(***************************************************************************)
InitGuard ==
    /\ phase = "caller"
    /\ phone_valid \in BOOLEAN
    /\ entries = 1
    /\ session_state = [call_result |-> Absent, email_sent_result |-> Str("")]
    /\ completed_function_calls = {}
    /\ phone_executions = 0
    /\ email_sends = 0
    /\ turn_invocations = 0
    /\ turn_executions = 0
    /\ turn_returns = << >>
    /\ last_return = NoReturn
    \* the broker is untouched in this specification
    /\ pending_requests = << >>
    /\ active_sessions = {}
    /\ calls = << >>
    /\ state = << >>
    /\ next_id = 1
    /\ resolved = << >>
    /\ task_state = << >>
    /\ loop = << >>
    /\ pipeline = << >>
    /\ parse = << >>
    /\ tracking = << >>
    /\ ui = << >>
    /\ analyzer = << >>
    /\ tracker = << >>

\* OutreachCallerAgent invokes its phone tool: the function-call event reaches
\* the executor, then the before_tool_callback runs, then (unless it returned
\* a result) phone_call runs to its return; _make_call blocks the event loop
\* (time.sleep), so nothing interleaves.  visible: whether the executor's
\* write to its session object reaches the state the callback reads.
CallerInvoke(outcome, visible) ==
    /\ phase = "caller"
    /\ turn_invocations < MaxInvocations
    /\ LET tracked == track_function_call(phone_call_tool.name,
                                          completed_function_calls, session_state)
           seen == IF visible THEN tracked.state ELSE session_state
           guard == prevent_duplicate_call_callback(phone_call_tool.name, seen, seen)
           ran == phone_call(phone_valid, outcome)
           value == IF guard.skip THEN guard.result ELSE ran
           done == ~guard.skip /\ ran.kind = "dict" /\ ran.status = "done"
       IN /\ completed_function_calls' = tracked.completed
          /\ session_state' = seen
          /\ phone_executions' = phone_executions + (IF done THEN 1 ELSE 0)
          /\ turn_invocations' = turn_invocations + 1
          /\ turn_executions' = turn_executions + (IF guard.skip THEN 0 ELSE 1)
          /\ turn_returns' = Append(turn_returns, value)
          /\ last_return' = [tool |-> "phone_call",
                             precached |-> call_completed(seen.call_result),
                             executed |-> ~guard.skip,
                             value |-> value,
                             cached |-> seen.call_result]
    /\ UNCHANGED <<phase, phone_valid, entries, email_sends>>
    /\ UNCHANGED <<brokerVars, workflowVars, serviceVars>>

\* OutreachCallerAgent gives its final response: output_key="call_result" is
\* stored; ConversationClassifierAgent and SDRRouter follow, and the router
\* runs the email branch (engage) or the save-to-database branch
CallerFinal(output, engage) ==
    /\ phase = "caller"
    /\ output \in AgentOutputs(IF turn_invocations > 0 THEN last_return.value ELSE Absent)
    /\ session_state' = [session_state EXCEPT !.call_result = output]
    /\ phase' = IF engage THEN "email" ELSE "finished"
    /\ turn_invocations' = 0
    /\ turn_executions' = 0
    /\ turn_returns' = << >>
    /\ last_return' = NoReturn
    /\ UNCHANGED <<phone_valid, entries, completed_function_calls, phone_executions, email_sends>>
    /\ UNCHANGED <<brokerVars, workflowVars, serviceVars>>

\* EmailSenderAgent invokes send_email_with_attachment (no before_tool_callback
\* is registered on this agent); the tool is synchronous
EmailInvoke(outcome) ==
    /\ phase = "email"
    /\ turn_invocations < MaxInvocations
    /\ LET tracked == track_function_call(send_email_with_attachment_tool.name,
                                          completed_function_calls, session_state)
           run == send_email_with_attachment(tracked.state, outcome)
       IN /\ completed_function_calls' = tracked.completed
          /\ session_state' = run.state
          /\ email_sends' = email_sends + (IF run.sent THEN 1 ELSE 0)
          /\ last_return' = [tool |-> "send_email_with_attachment",
                             precached |-> email_already_sent(tracked.state.email_sent_result),
                             executed |-> ~email_already_sent(tracked.state.email_sent_result),
                             value |-> run.value,
                             cached |-> tracked.state.email_sent_result]
    /\ turn_invocations' = turn_invocations + 1
    /\ UNCHANGED <<phase, phone_valid, entries, phone_executions, turn_executions, turn_returns>>
    /\ UNCHANGED <<brokerVars, workflowVars, serviceVars>>

\* EmailSenderAgent gives its final response: output_key="email_sent_result"
EmailFinal(output) ==
    /\ phase = "email"
    /\ output \in AgentOutputs(IF turn_invocations > 0 THEN last_return.value ELSE Absent)
    /\ session_state' = [session_state EXCEPT !.email_sent_result = output]
    /\ phase' = "finished"
    /\ turn_invocations' = 0
    /\ last_return' = NoReturn
    /\ UNCHANGED <<phone_valid, entries, completed_function_calls, phone_executions,
                   email_sends, turn_executions, turn_returns>>
    /\ UNCHANGED <<brokerVars, workflowVars, serviceVars>>

\* execute() is entered again with the same context_id: get_session finds the
\* session and the SDRAgent sequence runs again over the same state
Reenter ==
    /\ phase = "finished"
    /\ entries < MaxEntries
    /\ entries' = entries + 1
    /\ phase' = "caller"
    /\ UNCHANGED <<phone_valid, session_state, completed_function_calls, phone_executions,
                   email_sends, turn_invocations, turn_executions, turn_returns,
                   last_return>>
    /\ UNCHANGED <<brokerVars, workflowVars, serviceVars>>

NextGuard ==
    \/ \E outcome \in MakeCallReturns, visible \in BOOLEAN : CallerInvoke(outcome, visible)
    \/ \E output \in AllAgentOutputs, engage \in BOOLEAN : CallerFinal(output, engage)
    \/ \E outcome \in SendEmailReturns : EmailInvoke(outcome)
    \/ \E output \in AllAgentOutputs : EmailFinal(output)
    \/ Reenter

SpecGuard == InitGuard /\ [][NextGuard]_vars

(***************************************************************************)
(* Claims about the idempotency guard                                      *)
(***************************************************************************)
\* C1: within one SDR run the phone_call capability completes a call at most
\* once, however often OutreachCallerAgent invokes its phone tool: a stored
\* successful call_result makes prevent_duplicate_call_callback suppress
\* every later invocation.
C1_PhoneCallAtMostOnce == phone_executions <= 1

\* C2: an invocation of the registered phone tool made while the state holds
\* a terminal-success call_result does not run phone_call and returns the
\* cached call_result.
C2_CachedResultShortCircuits ==
    (last_return.tool = "phone_call" /\ last_return.precached)
        => (~last_return.executed /\ last_return.value = last_return.cached)

\* C3: of two invocations of the phone tool with identical arguments, the
\* second made before the result of the first (a completed call) is stored,
\* exactly one runs phone_call and both call sites receive the same result.
C3_SimultaneousCallsCollapse ==
    (/\ phase = "caller"
     /\ Len(turn_returns) >= 2
     /\ turn_returns[1].kind = "dict"
     /\ turn_returns[1].status = "done")
        => (turn_executions = 1 /\ turn_returns[2] = turn_returns[1])

\* C4: within one SDR run the email tool of EmailSenderAgent sends at most
\* once: after a successful send no repeated invocation sends again.
C4_EmailAtMostOnce == email_sends <= 1

(***************************************************************************)
(* Human Interaction Broker: HumanInteractionManager and its callers       *)
(***************************************************************************)
Calls == {"c1", "c2"}      \* human_creation coroutines the model follows

Runs == {"r1", "r2"}       \* SDR runs, each with its own tool_context.state

Prompts == {"p1", "p2"}    \* website creation prompts

Urls == {"u1", "u2"}       \* urls an operator can submit

\* request ids: create_request draws a fresh one each time (uuid4)
RequestIds == 1..Cardinality(Calls)

None == "<None>"

Truthy(v) == v \notin {None, ""}

\* hash(website_creation_prompt): some integer per prompt text
PromptHash(prompt) == IF prompt = "p1" THEN 7000003 ELSE 0 - 5

\* f"website_creation_{hash(website_creation_prompt) % 1000000}"
session_id_of(prompt) == PromptHash(prompt) % SessionModulus

DuplicateMessage == "Duplicate request detected. Please wait for the existing request to complete."

TimeoutMessage == "Human input timeout. You can still submit a response via API."

NoPromptMessage == "No website creation prompt found in state. Skipping human creation."

\* HumanRequest(request_id, prompt): status PENDING, url_response None
HumanRequest(prompt) == [prompt |-> prompt, status |-> "pending", url_response |-> None]

NoRequest == [prompt |-> None, status |-> "none", url_response |-> None]

create_request(requests, request_id, prompt) ==
    [i \in DOMAIN requests \cup {request_id} |->
        IF i = request_id THEN HumanRequest(prompt) ELSE requests[i]]

get_request(requests, request_id) ==
    IF request_id \in DOMAIN requests THEN requests[request_id] ELSE NoRequest

update_request(requests, request_id, url) ==
    IF request_id \in DOMAIN requests
    THEN [requests EXCEPT ![request_id].status = "completed",
                          ![request_id].url_response = url]
    ELSE requests

cancel_request(requests, request_id) ==
    IF request_id \in DOMAIN requests
    THEN [requests EXCEPT ![request_id].status = "cancelled"]
    ELSE requests

cleanup_request(requests, request_id) ==
    [i \in DOMAIN requests \ {request_id} |-> requests[i]]

\* a bug: the check of the active sessions never finds the key
is_session_active_never(sessions, session_id) == FALSE

is_session_active(sessions, session_id) == session_id \in sessions

mark_session_active(sessions, session_id) == sessions \cup {session_id}

mark_session_inactive(sessions, session_id) == sessions \ {session_id}

\* a bug: any registered request is accepted, whatever its status
submit_human_response_unchecked(requests, request_id, url) ==
    IF request_id \in DOMAIN requests
    THEN [ok |-> TRUE, requests |-> update_request(requests, request_id, url)]
    ELSE [ok |-> FALSE, requests |-> requests]

\* submit_human_response(request_id, url) -> bool
submit_human_response(requests, request_id, url) ==
    LET request == get_request(requests, request_id)
    IN IF request.status # "none" /\ request.status = "pending"
       THEN [ok |-> TRUE, requests |-> update_request(requests, request_id, url)]
       ELSE [ok |-> FALSE, requests |-> requests]

\* a bug: any registered request is cancelled, whatever its status
cancel_human_request_unchecked(requests, request_id) ==
    IF request_id \in DOMAIN requests
    THEN [ok |-> TRUE, requests |-> cancel_request(requests, request_id)]
    ELSE [ok |-> FALSE, requests |-> requests]

\* cancel_human_request(request_id) -> bool
cancel_human_request(requests, request_id) ==
    LET request == get_request(requests, request_id)
    IN IF request.status # "none" /\ request.status = "pending"
       THEN [ok |-> TRUE, requests |-> cancel_request(requests, request_id)]
       ELSE [ok |-> FALSE, requests |-> requests]

\* a bug: the loop does not look for COMPLETED and waits for its timeout
wait_for_human_response_blind(requests, request_id, start_time, time, timeout) ==
    LET request == get_request(requests, request_id)
    IN IF request.status = "none"
       THEN [returned |-> TRUE, value |-> None, timed_out |-> FALSE, requests |-> requests]
       ELSE IF request.status = "cancelled"
       THEN [returned |-> TRUE, value |-> None, timed_out |-> FALSE, requests |-> requests]
       ELSE IF time - start_time > timeout
       THEN [returned |-> TRUE, value |-> None, timed_out |-> TRUE,
             requests |-> cancel_request(requests, request_id)]
       ELSE [returned |-> FALSE, value |-> None, timed_out |-> FALSE, requests |-> requests]

\* a bug: on timeout the loop returns without cancelling the request
wait_for_human_response_no_cancel(requests, request_id, start_time, time, timeout) ==
    LET request == get_request(requests, request_id)
    IN IF request.status = "none"
       THEN [returned |-> TRUE, value |-> None, timed_out |-> FALSE, requests |-> requests]
       ELSE IF request.status = "completed"
       THEN [returned |-> TRUE, value |-> request.url_response, timed_out |-> FALSE,
             requests |-> requests]
       ELSE IF request.status = "cancelled"
       THEN [returned |-> TRUE, value |-> None, timed_out |-> FALSE, requests |-> requests]
       ELSE IF time - start_time > timeout
       THEN [returned |-> TRUE, value |-> None, timed_out |-> TRUE, requests |-> requests]
       ELSE [returned |-> FALSE, value |-> None, timed_out |-> FALSE, requests |-> requests]

\* one pass of the loop of wait_for_human_response, at clock time: either it
\* returns (a url, or None) or it goes to sleep for PollInterval
wait_for_human_response(requests, request_id, start_time, time, timeout) ==
    LET request == get_request(requests, request_id)
    IN IF request.status = "none"
       THEN [returned |-> TRUE, value |-> None, timed_out |-> FALSE, requests |-> requests]
       ELSE IF request.status = "completed"
       THEN [returned |-> TRUE, value |-> request.url_response, timed_out |-> FALSE,
             requests |-> requests]
       ELSE IF request.status = "cancelled"
       THEN [returned |-> TRUE, value |-> None, timed_out |-> FALSE, requests |-> requests]
       ELSE IF time - start_time > timeout
       THEN [returned |-> TRUE, value |-> None, timed_out |-> TRUE,
             requests |-> cancel_request(requests, request_id)]
       ELSE [returned |-> FALSE, value |-> None, timed_out |-> FALSE, requests |-> requests]

\* _skip_human_creation_if_exists(tool, args, tool_context): a string result
\* skips the tool, None lets human_creation run
skip_human_creation_if_exists(ctx) ==
    IF Truthy(ctx.website_preview_link) THEN ctx.website_preview_link
    ELSE IF ~Truthy(ctx.website_creation_prompt) THEN NoPromptMessage
    ELSE None

\* the tail of each branch of human_creation: 'website_creation_prompt' is set
\* to None when the key is in the state
clear_website_creation_prompt(ctx) == [ctx EXCEPT !.website_creation_prompt = None]

RECURSIVE Pow2(_)
Pow2(n) == IF n = 0 THEN 1 ELSE 2 * Pow2(n - 1)

\* replies to the POST of send_ui_notification
PostReplies == {"ok", "connect_error", "timeout", "error"}

IdleCall ==
    [pc |-> "idle", run |-> "r1", prompt |-> None, session_id |-> 0, request_id |-> 0,
     sleep |-> 0, elapsed |-> 0, url_response |-> None, result |-> None,
     notifications |-> 0, posts |-> 0, began_while_pending |-> FALSE, holder_run |-> None,
     wait_value |-> None, timed_out |-> FALSE, waited |-> 0, status_at_return |-> "none"]

Sleeping(c) == calls[c].pc \in {"backoff", "wait", "grace", "duplicate"}

Returned(c) == calls[c].pc = "done"

\* the run whose call holds the session key sid (at most one call does)
HolderRun(sid) ==
    LET holders == { d \in Calls : /\ calls[d].session_id = sid
                                   /\ calls[d].pc \in {"notify", "backoff", "wait", "grace"} }
    IN IF holders = {} THEN None ELSE calls[CHOOSE d \in holders : TRUE].run

PendingUnderKey(sid) ==
    { i \in DOMAIN pending_requests :
        /\ pending_requests[i].status = "pending"
        /\ session_id_of(pending_requests[i].prompt) = sid }

\* PrepareApproval has stored each run's website_creation_prompt; execute()
\* has set website_preview_link to ''.  Prompts are interchangeable, so p1
\* names the prompt of run r1.
InitBroker ==
    /\ pending_requests = << >>
    /\ active_sessions = {}
    /\ calls = [c \in Calls |-> IdleCall]
    /\ state \in [Runs -> [website_preview_link : {""}, website_creation_prompt : Prompts]]
    /\ state["r1"].website_creation_prompt = "p1"
    /\ next_id = 1
    /\ resolved = [i \in RequestIds |-> << >>]
    /\ task_state = [r \in Runs |-> "working"]
    /\ loop = << >>
    /\ pipeline = << >>
    \* the SDR run that reached the website step plays no further part
    /\ phase = "finished"
    /\ phone_valid = TRUE
    /\ entries = MaxEntries
    /\ session_state = [call_result |-> Absent, email_sent_result |-> Str("")]
    /\ completed_function_calls = {}
    /\ phone_executions = 0
    /\ email_sends = 0
    /\ turn_invocations = 0
    /\ turn_executions = 0
    /\ turn_returns = << >>
    /\ last_return = NoReturn
    /\ parse = << >>
    /\ tracking = << >>
    /\ ui = << >>
    /\ analyzer = << >>
    /\ tracker = << >>

\* human_creation from the start of wait_for_human_response to its next
\* suspension: the loop either sleeps, or returns and human_creation goes on
\* to its grace sleep (a url) or cleans up and returns (no response)
RunWait(c, rec) ==
    LET w == wait_for_human_response(pending_requests, rec.request_id,
                                     0, rec.elapsed, Timeout)
        seen == [rec EXCEPT !.wait_value = w.value,
                            !.timed_out = w.timed_out,
                            !.waited = rec.elapsed,
                            !.elapsed = 0,
                            !.sleep = 0,
                            !.status_at_return = get_request(w.requests, rec.request_id).status]
    IN IF ~w.returned
       THEN /\ calls' = [calls EXCEPT ![c] = [rec EXCEPT !.pc = "wait",
                                                         !.sleep = PollInterval]]
            /\ pending_requests' = w.requests
            /\ UNCHANGED <<active_sessions, state>>
       ELSE IF Truthy(w.value)
       THEN /\ calls' = [calls EXCEPT ![c] = [seen EXCEPT !.pc = "grace",
                                                          !.url_response = w.value,
                                                          !.sleep = GraceDelay]]
            /\ pending_requests' = w.requests
            /\ UNCHANGED <<active_sessions, state>>
       ELSE /\ calls' = [calls EXCEPT ![c] = [seen EXCEPT !.pc = "done",
                                                          !.url_response = w.value,
                                                          !.result = TimeoutMessage]]
            /\ pending_requests' = cleanup_request(w.requests, rec.request_id)
            /\ active_sessions' = mark_session_inactive(active_sessions, rec.session_id)
            /\ state' = [state EXCEPT ![rec.run] = clear_website_creation_prompt(@)]

\* RequestHumanApproval of run r invokes its tool: the before_tool_callback,
\* then human_creation up to its first suspension.  Coroutines and runs are
\* interchangeable, so c1 names the call that starts first and r1 its run.
Begin(c, r) ==
    /\ calls[c].pc = "idle"
    /\ c = "c1" => r = "r1"
    /\ c = "c2" => calls["c1"].pc # "idle"
    /\ LET prompt == state[r].website_creation_prompt
           skipped == skip_human_creation_if_exists(state[r])
           sid == session_id_of(prompt)
           rec == [calls[c] EXCEPT !.run = r, !.prompt = prompt]
       IN IF skipped # None
          THEN /\ calls' = [calls EXCEPT ![c] = [rec EXCEPT !.pc = "done", !.result = skipped]]
               /\ UNCHANGED <<pending_requests, active_sessions, next_id>>
          ELSE IF is_session_active(active_sessions, sid)
          THEN /\ calls' = [calls EXCEPT ![c] =
                              [rec EXCEPT !.pc = "duplicate",
                                          !.session_id = sid,
                                          !.began_while_pending = PendingUnderKey(sid) # {},
                                          !.holder_run = HolderRun(sid),
                                          !.sleep = DuplicateDelay]]
               /\ UNCHANGED <<pending_requests, active_sessions, next_id>>
          ELSE /\ next_id \in RequestIds
               /\ calls' = [calls EXCEPT ![c] =
                              [rec EXCEPT !.pc = "notify",
                                          !.session_id = sid,
                                          !.began_while_pending = PendingUnderKey(sid) # {},
                                          !.request_id = next_id,
                                          !.notifications = 1,
                                          !.posts = 1]]
               /\ active_sessions' = mark_session_active(active_sessions, sid)
               /\ pending_requests' = create_request(pending_requests, next_id, prompt)
               /\ next_id' = next_id + 1
    /\ UNCHANGED <<state, resolved>>
    /\ UNCHANGED <<guardVars, workflowVars, serviceVars>>

\* the POST of send_ui_notification is answered: success or a final failure
\* ends send_ui_notification and wait_for_human_response starts; a connect
\* error or timeout before the last attempt sleeps and retries
PostReply(c, reply) ==
    /\ calls[c].pc = "notify"
    /\ LET rec == calls[c]
           attempt == rec.posts - 1
           last == attempt >= MaxRetries - 1
       IN IF reply \in {"connect_error", "timeout"} /\ ~last
          THEN /\ calls' = [calls EXCEPT ![c] =
                              [rec EXCEPT !.pc = "backoff",
                                          !.sleep = IF reply = "connect_error"
                                                    THEN Pow2(attempt)
                                                    ELSE TimeoutBackoff]]
               /\ UNCHANGED <<pending_requests, active_sessions, state>>
          ELSE RunWait(c, [rec EXCEPT !.elapsed = 0])
    /\ UNCHANGED <<next_id, resolved>>
    /\ UNCHANGED <<guardVars, workflowVars, serviceVars>>

\* the sleep between two attempts of send_ui_notification ends: next POST
BackoffWake(c) ==
    /\ calls[c].pc = "backoff"
    /\ calls[c].sleep = 0
    /\ calls' = [calls EXCEPT ![c] = [@ EXCEPT !.pc = "notify", !.posts = @ + 1]]
    /\ UNCHANGED <<pending_requests, active_sessions, state, next_id, resolved>>
    /\ UNCHANGED <<guardVars, workflowVars, serviceVars>>

\* asyncio.sleep(1) of wait_for_human_response ends: next pass of its loop
WaitWake(c) ==
    /\ calls[c].pc = "wait"
    /\ calls[c].sleep = 0
    /\ RunWait(c, calls[c])
    /\ UNCHANGED <<next_id, resolved>>
    /\ UNCHANGED <<guardVars, workflowVars, serviceVars>>

\* asyncio.sleep(2) after a response ends: cleanup, and the url is returned
GraceWake(c) ==
    /\ calls[c].pc = "grace"
    /\ calls[c].sleep = 0
    /\ pending_requests' = cleanup_request(pending_requests, calls[c].request_id)
    /\ active_sessions' = mark_session_inactive(active_sessions, calls[c].session_id)
    /\ state' = [state EXCEPT ![calls[c].run] = clear_website_creation_prompt(@)]
    /\ calls' = [calls EXCEPT ![c] = [@ EXCEPT !.pc = "done", !.result = calls[c].url_response]]
    /\ UNCHANGED <<next_id, resolved>>
    /\ UNCHANGED <<guardVars, workflowVars, serviceVars>>

\* asyncio.sleep(2) of a duplicate request ends: the state is read again
DuplicateWake(c) ==
    /\ calls[c].pc = "duplicate"
    /\ calls[c].sleep = 0
    /\ LET updated_url == state[calls[c].run].website_preview_link
       IN calls' = [calls EXCEPT ![c] =
                      [@ EXCEPT !.pc = "done",
                                !.result = IF Truthy(updated_url) THEN updated_url
                                           ELSE DuplicateMessage]]
    /\ UNCHANGED <<pending_requests, active_sessions, state, next_id, resolved>>
    /\ UNCHANGED <<guardVars, workflowVars, serviceVars>>

\* RequestHumanApproval gives its final response, the tool's result:
\* output_key="website_preview_link"
StoreOutput(c) ==
    /\ calls[c].pc = "done"
    /\ state[calls[c].run].website_preview_link # calls[c].result
    /\ state' = [state EXCEPT ![calls[c].run].website_preview_link = calls[c].result]
    /\ UNCHANGED <<pending_requests, active_sessions, calls, next_id, resolved>>
    /\ UNCHANGED <<guardVars, workflowVars, serviceVars>>

\* POST /api/human-input/{request_id}: body is the value of 'url' or
\* 'response' in the JSON body, "" when neither is set, "malformed" when the
\* body is not JSON.  The status code of the reply:
human_input_status(requests, request_id, body) ==
    IF body = "malformed" \/ ~Truthy(body) THEN 400
    ELSE IF submit_human_response(requests, request_id, body).ok THEN 200
    ELSE 404

human_input_callback(request_id, body) ==
    /\ LET status == human_input_status(pending_requests, request_id, body)
           submit == submit_human_response(pending_requests, request_id, body)
       IN IF status = 400
          THEN UNCHANGED <<pending_requests, resolved>>
          ELSE /\ pending_requests' = submit.requests
               /\ resolved' = IF submit.ok
                              THEN [resolved EXCEPT ![request_id] = Append(@, body)]
                              ELSE resolved
    /\ UNCHANGED <<active_sessions, calls, state, next_id>>
    /\ UNCHANGED <<guardVars, workflowVars, serviceVars>>

\* cancel_human_request(request_id), the API function for external callers
CancelHumanRequest(request_id) ==
    /\ LET cancel == cancel_human_request(pending_requests, request_id)
       IN /\ cancel.ok
          /\ pending_requests' = cancel.requests
    /\ UNCHANGED <<active_sessions, calls, state, next_id, resolved>>
    /\ UNCHANGED <<guardVars, workflowVars, serviceVars>>

\* one second passes: every sleep has a second less to go and the clock of
\* every wait_for_human_response reads a second more (the comparison with the
\* timeout cannot tell readings beyond Timeout + 1 apart)
Tick ==
    /\ \E c \in Calls : \/ (Sleeping(c) /\ calls[c].sleep > 0)
                         \/ (calls[c].pc = "wait" /\ calls[c].elapsed <= Timeout)
    /\ calls' = [c \in Calls |->
                  [calls[c] EXCEPT
                     !.sleep = IF @ > 0 THEN @ - 1 ELSE 0,
                     !.elapsed = IF calls[c].pc = "wait" /\ @ <= Timeout THEN @ + 1 ELSE @]]
    /\ UNCHANGED <<pending_requests, active_sessions, state, next_id, resolved>>
    /\ UNCHANGED <<guardVars, workflowVars, serviceVars>>

CallStep(c) ==
    \/ \E reply \in PostReplies : PostReply(c, reply)
    \/ BackoffWake(c)
    \/ WaitWake(c)
    \/ GraceWake(c)
    \/ DuplicateWake(c)

NextBroker ==
    \/ \E c \in Calls, r \in Runs : Begin(c, r)
    \/ \E c \in Calls, reply \in PostReplies : PostReply(c, reply)
    \/ \E c \in Calls : BackoffWake(c)
    \/ \E c \in Calls : WaitWake(c)
    \/ \E c \in Calls : GraceWake(c)
    \/ \E c \in Calls : DuplicateWake(c)
    \/ \E c \in Calls : StoreOutput(c)
    \/ \E i \in RequestIds, body \in Urls \cup {"", "malformed"} : human_input_callback(i, body)
    \/ \E i \in RequestIds : CancelHumanRequest(i)
    \/ Tick

SpecBroker == InitBroker /\ [][NextBroker]_vars

\* the event loop resumes a coroutine whose sleep or request has ended, and
\* time passes
FairSpecBroker ==
    /\ SpecBroker
    /\ WF_vars(Tick)
    /\ \A c \in Calls : WF_vars(CallStep(c))

(***************************************************************************)
(* Claims about the Human Interaction Broker                               *)
(***************************************************************************)
Bodies == Urls \cup {"", "malformed"}

SessionKeys == { session_id_of(p) : p \in Prompts }

IsPending(i) == i \in DOMAIN pending_requests /\ pending_requests[i].status = "pending"

\* C5: a submission succeeds (200) only for a request that is registered and
\* pending; for any other id a well-formed submission is answered 404 and
\* changes neither the registry nor any request's status or response; so no
\* request is resolved more than once.
C5_SubmitOnlyPending ==
    /\ [][\A i \in RequestIds, body \in Bodies :
            human_input_callback(i, body) =>
                IF IsPending(i) /\ body \in Urls
                THEN human_input_status(pending_requests, i, body) = 200
                ELSE /\ human_input_status(pending_requests, i, body) # 200
                     /\ body \in Urls => human_input_status(pending_requests, i, body) = 404
                     /\ UNCHANGED <<pending_requests, active_sessions, resolved>>]_vars
    /\ [](\A i \in RequestIds : Len(resolved[i]) <= 1)

\* a request resolved by one submission is still registered: every further
\* submission for it is a duplicate
C5_Witness ==
    \E i \in DOMAIN pending_requests :
        /\ pending_requests[i].status = "completed"
        /\ Len(resolved[i]) = 1

\* C6: once a request has left pending (completed or cancelled), no step
\* changes its status or its response for as long as it is registered, and it
\* is not resolved again.
C6_TerminalIsFinal ==
    [][\A i \in DOMAIN pending_requests :
          pending_requests[i].status # "pending" =>
              /\ i \in DOMAIN pending_requests' => pending_requests'[i] = pending_requests[i]
              /\ resolved'[i] = resolved[i]]_vars

\* an explicitly cancelled request is registered while its call still polls
C6_Witness ==
    \E c \in Calls :
        /\ calls[c].pc = "wait"
        /\ calls[c].request_id \in DOMAIN pending_requests
        /\ pending_requests[calls[c].request_id].status = "cancelled"

\* C7: once a submission with url has succeeded for the request a
\* human_creation call is suspended on, that call eventually returns, and
\* what it returns is exactly that url.
C7_SubmittedUrlIsReturned ==
    /\ [](\A c \in Calls :
            (Returned(c) /\ calls[c].request_id # 0 /\ resolved[calls[c].request_id] # << >>)
                => calls[c].result = resolved[calls[c].request_id][1])
    /\ \A c \in Calls, u \in Urls :
            (calls[c].request_id # 0 /\ resolved[calls[c].request_id] = <<u>>)
                ~> (Returned(c) /\ calls[c].result = u)

\* a call has returned the url submitted for its request, after the cleanup
C7_Witness ==
    \E c \in Calls :
        /\ Returned(c)
        /\ calls[c].request_id # 0
        /\ calls[c].request_id \notin DOMAIN pending_requests
        /\ resolved[calls[c].request_id] # << >>
        /\ calls[c].result \in Urls

\* C8: wait_for_human_response returns None for a request nobody resolved or
\* cancelled only when the timeout has elapsed; it has then marked the request
\* cancelled, human_creation returns its timeout message, and no later
\* submission for that id succeeds.
C8_TimeoutSentinel ==
    /\ [](\A c \in Calls :
            calls[c].timed_out =>
                /\ calls[c].waited >= Timeout
                /\ calls[c].wait_value = None
                /\ calls[c].status_at_return = "cancelled"
                /\ Returned(c)
                /\ calls[c].result = TimeoutMessage
                /\ resolved[calls[c].request_id] = << >>)
    /\ [](\A c \in Calls :
            (Returned(c) /\ calls[c].request_id # 0 /\ ~calls[c].timed_out) =>
                \/ calls[c].wait_value \in Urls
                \/ calls[c].status_at_return = "cancelled")
    /\ [][\A i \in RequestIds, body \in Bodies :
            (human_input_callback(i, body)
                /\ \E c \in Calls : calls[c].timed_out /\ calls[c].request_id = i)
            => (human_input_status(pending_requests, i, body) # 200
                /\ UNCHANGED <<pending_requests, resolved>>)]_vars

\* a call whose request nobody resolved has returned on the timeout
C8_Witness ==
    \E c \in Calls : calls[c].timed_out /\ Returned(c)

\* C9: a human_creation call that starts while a pending request is
\* registered under its dedup key registers no request and sends no
\* notification; under one key at most one pending request is registered, and
\* the call that registered it has invoked send_ui_notification exactly once.
C9_DuplicateSuppressed ==
    /\ \A c \in Calls :
          calls[c].began_while_pending =>
              /\ calls[c].request_id = 0
              /\ calls[c].notifications = 0
              /\ calls[c].posts = 0
    /\ \A sid \in SessionKeys : Cardinality(PendingUnderKey(sid)) <= 1
    /\ \A c \in Calls : calls[c].request_id # 0 => calls[c].notifications = 1

\* a second call started while the first call's request was pending
C9_Witness ==
    \E c, d \in Calls :
        /\ c # d
        /\ calls[c].began_while_pending
        /\ calls[c].session_id = calls[d].session_id
        /\ calls[d].notifications = 1

\* C10: the dedup key separates runs: a human_creation call is never treated
\* as a duplicate of a call made by another run, so two runs with the same
\* prompt text each register their own request.
C10_KeySeparatesRuns ==
    \A c \in Calls :
        calls[c].holder_run # None => calls[c].holder_run = calls[c].run

(***************************************************************************)
(* SpecCancel: the broker while runs are cancelled                         *)
(***************************************************************************)
\* the request ids human_creation calls of run r registered
OwnedRequests(r) ==
    { calls[c].request_id : c \in { d \in Calls : calls[d].run = r /\ calls[d].request_id # 0 } }

\* human_creation is at one of its awaits
Suspended(c) == calls[c].pc \in {"notify", "backoff", "wait", "grace", "duplicate"}

\* SDRAgentExecutor.cancel(context, event_queue) for the task of run r, while
\* the run is inside human_creation: a warning is logged and the task is
\* marked failed; the broker is not touched
cancel(r) ==
    /\ task_state[r] = "working"
    /\ \E c \in Calls : calls[c].run = r /\ Suspended(c)
    /\ task_state' = [task_state EXCEPT ![r] = "failed"]
    /\ UNCHANGED <<brokerVars, loop, pipeline, serviceVars>>
    /\ UNCHANGED guardVars

\* the asyncio task that runs execute() for a cancelled A2A task is cancelled
\* (whether the server does so is left open: this step may or may not be
\* taken).  asyncio.CancelledError is raised at the await human_creation is
\* suspended on; it is not an Exception, so the handler "except Exception"
\* of human_creation does not run and the coroutine ends without cleanup.
CancelledError(c) ==
    /\ Suspended(c)
    /\ task_state[calls[c].run] = "failed"
    /\ calls' = [calls EXCEPT ![c] = [@ EXCEPT !.pc = "cancelled", !.sleep = 0]]
    /\ UNCHANGED <<pending_requests, active_sessions, state, next_id, resolved>>
    /\ UNCHANGED <<guardVars, workflowVars, serviceVars>>

NextCancel ==
    \/ \E c \in Calls, r \in Runs : Begin(c, r)
    \/ \E c \in Calls, reply \in PostReplies : PostReply(c, reply)
    \/ \E c \in Calls : BackoffWake(c)
    \/ \E c \in Calls : WaitWake(c)
    \/ \E c \in Calls : GraceWake(c)
    \/ \E c \in Calls : DuplicateWake(c)
    \/ \E c \in Calls : StoreOutput(c)
    \/ \E i \in RequestIds, body \in Urls \cup {"", "malformed"} : human_input_callback(i, body)
    \/ \E i \in RequestIds : CancelHumanRequest(i)
    \/ Tick
    \/ \E r \in Runs : cancel(r)
    \/ \E c \in Calls : CancelledError(c)

SpecCancel == InitBroker /\ [][NextCancel]_vars

\* the event loop keeps resuming coroutines and time passes; nothing obliges
\* a client to cancel
FairSpecCancel ==
    /\ SpecCancel
    /\ WF_vars(Tick)
    /\ \A c \in Calls : WF_vars(CallStep(c))

(***************************************************************************)
(* Claims about cleanup and cancellation                                   *)
(***************************************************************************)
\* C11: every human_creation call that registered a request, however it ends
\* (response, timeout, explicit cancel, cancellation of the awaiting task),
\* is eventually followed by a state where the registry holds no entry for
\* its request id and its session key is not marked active.
C11_NoBookkeepingLeak ==
    \A c \in Calls :
        (calls[c].request_id # 0)
            ~> (/\ calls[c].request_id \notin DOMAIN pending_requests
                /\ calls[c].session_id \notin active_sessions)

\* C12: SDRAgentExecutor.cancel for a run suspended on a human request leaves
\* none of the run's requests pending, and the run's registry entries and
\* active-session marks are eventually released.
C12_CancelCascades ==
    /\ [][\A r \in Runs :
            cancel(r) =>
                \A i \in OwnedRequests(r) :
                    i \in DOMAIN pending_requests' => pending_requests'[i].status # "pending"]_vars
    /\ \A c \in Calls :
            (calls[c].request_id # 0 /\ task_state[calls[c].run] = "failed")
                ~> (/\ calls[c].request_id \notin DOMAIN pending_requests
                    /\ calls[c].session_id \notin active_sessions)

(***************************************************************************)
(* SpecLoop: SpecCreatorAgent, the refinement loop of OutreachEmailAgent    *)
(***************************************************************************)
MaxIterations == 3      \* LoopAgent(max_iterations=3)

\* ctx.session.state.get(key) when the key is not in the state
AbsentKey == "<absent>"

\* what QualityCheckerAgent can answer: 'pass', or the words of its prompt
CheckerReports == {"pass", "approved", "needs_revision"}

\* values 'quality_status' is given when the gate is examined on its own
QualityStatusValues ==
    {AbsentKey, None, "", "pass", "Pass", "pass ", "fail", "approved", "needs_revision"}

\* a bug: an agent's final response is not stored under its output_key
store_output_dropped(old, output) == old

\* LlmAgent(output_key=...): the final response replaces the value of the key
store_output(old, output) == output

\* a bug: a missing or empty status counts as 'pass'
SpecStatusCheckerAgent_default_pass(quality_status) ==
    LET got == IF quality_status = AbsentKey THEN "pass" ELSE quality_status
        status == IF ~Truthy(got) THEN "pass" ELSE got
    IN status = "pass"

\* SpecStatusCheckerAgent._run_async_impl: the escalate flag of its event,
\* from the value of state['quality_status']
SpecStatusCheckerAgent(quality_status) ==
    LET got == IF quality_status = AbsentKey THEN "fail" ELSE quality_status
        status == IF ~Truthy(got) THEN "fail" ELSE got
    IN status = "pass"

\* a bug: the loop has no iteration bound
loop_continues_unbounded(times_looped) == TRUE

\* LoopAgent: another pass over the sub_agents is made while the count of
\* completed passes is below max_iterations
loop_continues(times_looped) == times_looped < MaxIterations

\* the state on entry of SpecCreatorAgent: execute() created the session with
\* refined_requirements '' (draft 0); nothing has written either status key
IdleLoop ==
    [pc |-> "refine", times_looped |-> 0,
     refined_requirements |-> 0, quality_check_status |-> AbsentKey,
     quality_status |-> AbsentKey,
     refine_runs |-> 0, check_runs |-> 0, gate_invocations |-> 0,
     reports |-> << >>, escalated |-> FALSE, website_input |-> 0]

\* the iteration in which QualityCheckerAgent first reported 'pass', 0 if none
FirstPass ==
    LET passes == { k \in 1..Len(loop.reports) : loop.reports[k] = "pass" }
    IN IF passes = {} THEN 0 ELSE CHOOSE k \in passes : \A j \in passes : k <= j

InitLoop ==
    /\ loop = IdleLoop
    /\ pipeline = << >>
    /\ task_state = << >>
    /\ phase = "finished"
    /\ phone_valid = TRUE
    /\ entries = MaxEntries
    /\ session_state = [call_result |-> Absent, email_sent_result |-> Str("")]
    /\ completed_function_calls = {}
    /\ phone_executions = 0
    /\ email_sends = 0
    /\ turn_invocations = 0
    /\ turn_executions = 0
    /\ turn_returns = << >>
    /\ last_return = NoReturn
    /\ pending_requests = << >>
    /\ active_sessions = {}
    /\ calls = << >>
    /\ state = << >>
    /\ next_id = 1
    /\ resolved = << >>
    /\ parse = << >>
    /\ tracking = << >>
    /\ ui = << >>
    /\ analyzer = << >>
    /\ tracker = << >>

\* the gate examined for each value 'quality_status' could hold
InitGate ==
    /\ loop \in { [IdleLoop EXCEPT !.quality_status = v] : v \in QualityStatusValues }
    /\ pipeline = << >>
    /\ task_state = << >>
    /\ phase = "finished"
    /\ phone_valid = TRUE
    /\ entries = MaxEntries
    /\ session_state = [call_result |-> Absent, email_sent_result |-> Str("")]
    /\ completed_function_calls = {}
    /\ phone_executions = 0
    /\ email_sends = 0
    /\ turn_invocations = 0
    /\ turn_executions = 0
    /\ turn_returns = << >>
    /\ last_return = NoReturn
    /\ pending_requests = << >>
    /\ active_sessions = {}
    /\ calls = << >>
    /\ state = << >>
    /\ next_id = 1
    /\ resolved = << >>
    /\ parse = << >>
    /\ tracking = << >>
    /\ ui = << >>
    /\ analyzer = << >>
    /\ tracker = << >>

\* RequirementsRefinerAgent writes a draft: output_key="refined_requirements".
\* Drafts are numbered in the order they are written.
RequirementsRefiner ==
    /\ loop.pc = "refine"
    /\ loop' = [loop EXCEPT !.pc = "check",
                            !.refine_runs = @ + 1,
                            !.refined_requirements = store_output(@, loop.refine_runs + 1)]
    /\ UNCHANGED <<guardVars, brokerVars, task_state, pipeline, serviceVars>>

\* QualityCheckerAgent reports on the draft: output_key="quality_check_status"
QualityChecker(report) ==
    /\ loop.pc = "check"
    /\ loop' = [loop EXCEPT !.pc = "gate",
                            !.check_runs = @ + 1,
                            !.quality_check_status = store_output(@, report),
                            !.reports = Append(@, report)]
    /\ UNCHANGED <<guardVars, brokerVars, task_state, pipeline, serviceVars>>

\* SpecStatusCheckerAgent, the last sub-agent of the loop: LoopAgent returns
\* when its event escalates, else counts the pass and goes round again while
\* max_iterations allows
SpecStatusChecker ==
    /\ loop.pc = "gate"
    /\ LET should_stop == SpecStatusCheckerAgent(loop.quality_status)
           looped == loop.times_looped + 1
       IN loop' = [loop EXCEPT !.gate_invocations = @ + 1,
                               !.escalated = should_stop,
                               !.times_looped = IF should_stop THEN @ ELSE looped,
                               !.pc = IF should_stop THEN "exited"
                                      ELSE IF loop_continues(looped) THEN "refine"
                                      ELSE "exited"]
    /\ UNCHANGED <<guardVars, brokerVars, task_state, pipeline, serviceVars>>

\* OutreachEmailAgent goes on to WebsiteCreatorAgent: PrepareApproval's
\* instruction takes {refined_requirements} from the state
PrepareApproval ==
    /\ loop.pc = "exited"
    /\ loop' = [loop EXCEPT !.pc = "website", !.website_input = loop.refined_requirements]
    /\ UNCHANGED <<guardVars, brokerVars, task_state, pipeline, serviceVars>>

NextLoop ==
    \/ RequirementsRefiner
    \/ \E report \in CheckerReports : QualityChecker(report)
    \/ SpecStatusChecker
    \/ PrepareApproval

SpecLoop == InitLoop /\ [][NextLoop]_vars

SpecGate == InitGate /\ [][NextLoop]_vars

(***************************************************************************)
(* Claims about the refinement loop                                        *)
(***************************************************************************)
\* C13: in every run of the loop the refiner, the quality checker and the
\* gate each run at most max_iterations = 3 times, whatever the checker
\* writes.
C13_AtMostMaxIterations ==
    /\ loop.refine_runs <= MaxIterations
    /\ loop.check_runs <= MaxIterations
    /\ loop.gate_invocations <= MaxIterations
    /\ loop.times_looped <= MaxIterations

\* the third pass has been made and the loop has ended
C13_Witness ==
    /\ loop.pc = "exited"
    /\ loop.gate_invocations = MaxIterations
    /\ loop.refine_runs = MaxIterations

\* C14: once the quality checker has reported 'pass', on iteration k, no
\* further refine or check step runs: k iterations were made, the gate ended
\* the loop, and nothing runs after it but the next stage.
C14_HaltsAtFirstPass ==
    FirstPass # 0 =>
        /\ loop.refine_runs = FirstPass
        /\ loop.check_runs = FirstPass
        /\ loop.pc \in {"gate", "exited", "website"}
        /\ loop.pc \in {"exited", "website"} => loop.escalated

C16_GateEscalatesIffPass ==
    /\ \A v \in QualityStatusValues : SpecStatusCheckerAgent(v) <=> (v = "pass")
    /\ loop.gate_invocations > 0 =>
          /\ loop.escalated <=> (loop.quality_status = "pass")
          /\ loop.escalated => loop.pc \in {"exited", "website"}

\* the gate ran with the key absent and did not escalate
C16_Witness ==
    /\ loop.gate_invocations > 0
    /\ loop.quality_status = AbsentKey
    /\ ~loop.escalated

(***************************************************************************)
(* SpecPipeline: the tail of the SDRAgent sequence of one run, from        *)
(* ConversationClassifierAgent through SDRRouter to post_results_callback   *)
(* and the completion of the A2A task                                       *)
(***************************************************************************)
\* the categories CONVERSATION_CLASSIFIER_PROMPT lists; the field is a plain
\* str, so a category off the list ("") passes validation as well
Categories == {"agreed_to_email", "interested", "not_interested", "issue_appeared", "other", ""}

\* agreed_to_email: the owner agreed to receive the proposal
PositiveCategories == {"agreed_to_email"}

\* not_interested: the owner explicitly declined
NegativeCategories == {"not_interested"}

\* what the classifier's final response can be: JSON that validates against
\* ConversationClassificationResult, JSON that does not, or no text at all
ClassifierOutcomes == Categories \cup {"<invalid>", "<no text>"}

\* ctx.session.state.get("call_category") when the key was never written
NoClassification == [kind |-> "absent", call_category |-> "", keys |-> 0, flag |-> FALSE]

\* output_schema with output_key: the validated model is stored as a dict with
\* the keys call_category and email (and note when given)
Classification(category) ==
    [kind |-> "dict", call_category |-> category, keys |-> 2, flag |-> FALSE]

\* "a boolean flag in the session state ('call_category')", as the docstring
\* of SDRRouter describes the value
Flag(b) == [kind |-> "bool", call_category |-> "", keys |-> 0, flag |-> b]

\* the bare category as a string
Text(category) == [kind |-> "str", call_category |-> category, keys |-> 0, flag |-> FALSE]

\* values under 'call_category' for which the router is examined on its own
RouterInputs ==
    {Flag(TRUE), Flag(FALSE), Text("agreed_to_email"), Text("not_interested"), Text("")}

\* Python truth value of a stored value: a dict or a string is true unless
\* it is empty
Bool(value) ==
    CASE value.kind = "dict" -> value.keys > 0
      [] value.kind = "str" -> value.call_category # ""
      [] value.kind = "bool" -> value.flag
      [] OTHER -> FALSE

\* a bug: a true classification triggers both agents
SDRRouter_both(call_category) ==
    IF call_category.kind = "absent" THEN {}
    ELSE IF Bool(call_category) THEN {"email_agent", "save_to_database_agent"}
    ELSE {"save_to_database_agent"}

\* SDRRouter._run_async_impl: the sub-agents it runs for the value of
\* state['call_category']
SDRRouter(call_category) ==
    IF call_category.kind = "absent" THEN {}
    ELSE IF Bool(call_category) THEN {"email_agent"}
    ELSE {"save_to_database_agent"}

\* state['email_sent_result'] when the callback runs: '' as created, free
\* text of EmailSenderAgent's final response (which may contain the words
\* email_sent_result), the dict the tool stored, or JSON text with the key
\* 'email_sent_result' whose value is a dict or a string
EmailResultShapes == {"empty", "text", "text_with_key", "tool_dict", "wrapped", "wrapped_text"}

\* the answers of the UI client to the POST of send_sdr_update_to_ui
SinkReplies == {"ok", "http_error", "network_error"}

\* a bug: a failed POST is repeated once
send_sdr_update_to_ui_retrying(email_sent_result, reply) ==
    IF email_sent_result = "text"
    THEN [raised |-> TRUE, posts |-> 0, delivered |-> 0]
    ELSE [raised |-> FALSE, posts |-> IF reply = "ok" THEN 1 ELSE 2,
          delivered |-> IF reply = "ok" THEN 1 ELSE 0]

\* send_sdr_update_to_ui(business_data, email_sent_result): a string argument
\* has no .get and raises before the POST; else one POST, whose failure is
\* logged and returned as False
send_sdr_update_to_ui(email_sent_result, reply) ==
    IF email_sent_result = "text"
    THEN [raised |-> TRUE, posts |-> 0, delivered |-> 0]
    ELSE [raised |-> FALSE, posts |-> 1, delivered |-> IF reply = "ok" THEN 1 ELSE 0]

\* post_results_callback from the parse of email_sent_result to the UI
\* update: the argument it hands to send_sdr_update_to_ui, or the TypeError
\* of indexing a string with 'email_sent_result'
dispatch(shape, reply) ==
    CASE shape = "text_with_key" -> [raised |-> TRUE, posts |-> 0, delivered |-> 0]
      [] shape = "wrapped" -> send_sdr_update_to_ui("dict", reply)
      [] shape = "wrapped_text" -> send_sdr_update_to_ui("text", reply)
      [] OTHER -> send_sdr_update_to_ui("none", reply)

IdlePipeline ==
    [pc |-> "classifier", call_category |-> NoClassification, todo |-> {},
     classified |-> FALSE,
     email_agent_runs |-> 0, save_to_database_agent_runs |-> 0,
     validation_event |-> FALSE, email_sent_result |-> "empty",
     router_finished |-> FALSE, raised |-> FALSE,
     callback_runs |-> 0, callback_after_router |-> FALSE,
     posts |-> 0, delivered |-> 0, sink_reply |-> "none"]

\* a run that has reached ConversationClassifierAgent; or SDRRouter about to
\* run on one of RouterInputs
InitPipeline ==
    /\ pipeline \in {IdlePipeline} \cup
                    { [IdlePipeline EXCEPT !.pc = "router", !.call_category = v] :
                        v \in RouterInputs }
    /\ task_state = [r \in {"r1"} |-> "working"]
    /\ loop = << >>
    /\ phase = "finished"
    /\ phone_valid = TRUE
    /\ entries = MaxEntries
    /\ session_state = [call_result |-> Absent, email_sent_result |-> Str("")]
    /\ completed_function_calls = {}
    /\ phone_executions = 0
    /\ email_sends = 0
    /\ turn_invocations = 0
    /\ turn_executions = 0
    /\ turn_returns = << >>
    /\ last_return = NoReturn
    /\ pending_requests = << >>
    /\ active_sessions = {}
    /\ calls = << >>
    /\ state = << >>
    /\ next_id = 1
    /\ resolved = << >>
    /\ parse = << >>
    /\ tracking = << >>
    /\ ui = << >>
    /\ analyzer = << >>
    /\ tracker = << >>

\* ConversationClassifierAgent gives its final response
ConversationClassifier(outcome) ==
    /\ pipeline.pc = "classifier"
    /\ pipeline' =
         IF outcome = "<invalid>"
         THEN [pipeline EXCEPT !.pc = "executor", !.raised = TRUE]
         ELSE IF outcome = "<no text>"
         THEN [pipeline EXCEPT !.pc = "router"]
         ELSE [pipeline EXCEPT !.pc = "router", !.classified = TRUE,
                               !.call_category = Classification(outcome)]
    /\ UNCHANGED <<guardVars, brokerVars, task_state, loop, serviceVars>>

\* SDRRouter reads call_category: the error event for a missing key, or the
\* start of a sub-agent
SDRRouterStart ==
    /\ pipeline.pc = "router"
    /\ pipeline' = [pipeline EXCEPT !.pc = "branch",
                                    !.todo = SDRRouter(pipeline.call_category),
                                    !.validation_event = pipeline.call_category.kind = "absent"]
    /\ UNCHANGED <<guardVars, brokerVars, task_state, loop, serviceVars>>

\* self.email_agent.run_async(ctx) runs to its end; EmailSenderAgent has left
\* some value under email_sent_result
EmailAgent(shape) ==
    /\ pipeline.pc = "branch"
    /\ "email_agent" \in pipeline.todo
    /\ pipeline' = [pipeline EXCEPT !.todo = @ \ {"email_agent"},
                                    !.email_agent_runs = @ + 1,
                                    !.email_sent_result = shape]
    /\ UNCHANGED <<guardVars, brokerVars, task_state, loop, serviceVars>>

\* self.save_to_database_agent.run_async(ctx) runs to its end
SaveToDatabaseAgent ==
    /\ pipeline.pc = "branch"
    /\ "save_to_database_agent" \in pipeline.todo
    /\ "email_agent" \notin pipeline.todo
    /\ pipeline' = [pipeline EXCEPT !.todo = @ \ {"save_to_database_agent"},
                                    !.save_to_database_agent_runs = @ + 1]
    /\ UNCHANGED <<guardVars, brokerVars, task_state, loop, serviceVars>>

\* SDRRouter returns: the last child of SDRAgent has finished
SDRRouterFinish ==
    /\ pipeline.pc = "branch"
    /\ pipeline.todo = {}
    /\ pipeline' = [pipeline EXCEPT !.pc = "callback", !.router_finished = TRUE]
    /\ UNCHANGED <<guardVars, brokerVars, task_state, loop, serviceVars>>

\* after_agent_callback of SDRAgent: post_results_callback
post_results_callback(reply) ==
    /\ pipeline.pc = "callback"
    /\ LET sent == dispatch(pipeline.email_sent_result, reply)
       IN pipeline' = [pipeline EXCEPT !.pc = "executor",
                                       !.callback_runs = @ + 1,
                                       !.callback_after_router = pipeline.router_finished,
                                       !.raised = sent.raised,
                                       !.posts = @ + sent.posts,
                                       !.delivered = @ + sent.delivered,
                                       !.sink_reply = IF sent.posts > 0 THEN reply ELSE "none"]
    /\ UNCHANGED <<guardVars, brokerVars, task_state, loop, serviceVars>>

\* execute(): run_async is exhausted and the task is completed, or an
\* exception left it and the task is failed
ExecuteFinish ==
    /\ pipeline.pc = "executor"
    /\ pipeline' = [pipeline EXCEPT !.pc = "done"]
    /\ task_state' = [task_state EXCEPT !["r1"] = IF pipeline.raised THEN "failed"
                                                  ELSE "completed"]
    /\ UNCHANGED <<guardVars, brokerVars, loop, serviceVars>>

NextPipeline ==
    \/ \E outcome \in ClassifierOutcomes : ConversationClassifier(outcome)
    \/ SDRRouterStart
    \/ \E shape \in EmailResultShapes : EmailAgent(shape)
    \/ SaveToDatabaseAgent
    \/ SDRRouterFinish
    \/ \E reply \in SinkReplies : post_results_callback(reply)
    \/ ExecuteFinish

SpecPipeline == InitPipeline /\ [][NextPipeline]_vars

(***************************************************************************)
(* Claims about the router and the callback                                *)
(***************************************************************************)
\* the values ConversationClassifierAgent can store under 'call_category'
ClassifiedValues == { Classification(c) : c \in Categories }

BranchRuns == pipeline.email_agent_runs + pipeline.save_to_database_agent_runs

C18_MissingKeyFailsRun ==
    (pipeline.pc = "done" /\ pipeline.validation_event) =>
        /\ BranchRuns = 0
        /\ task_state["r1"] = "failed"

\* C19: for every value the classifier stores, a positive classification runs
\* only email_agent and a negative one only save_to_database_agent.
C19_DispatchByClassification ==
    (pipeline.router_finished /\ pipeline.classified) =>
        /\ pipeline.call_category.call_category \in PositiveCategories =>
              /\ pipeline.email_agent_runs = 1
              /\ pipeline.save_to_database_agent_runs = 0
        /\ pipeline.call_category.call_category \in NegativeCategories =>
              /\ pipeline.email_agent_runs = 0
              /\ pipeline.save_to_database_agent_runs = 1

\* C20, as stated: when the root sequence has finished, post_results_callback
\* has run exactly once, after SDRRouter, and exactly one notification record
\* has been delivered to the UI.
C20_CallbackDeliversOnce ==
    /\ pipeline.callback_runs > 0 => pipeline.callback_after_router
    /\ (pipeline.router_finished /\ pipeline.pc \in {"executor", "done"}) =>
          /\ pipeline.callback_runs = 1
          /\ pipeline.delivered = 1

\* C20, amended: when the root sequence has finished, post_results_callback
\* has run exactly once, after SDRRouter; it makes at most one POST to the UI,
\* exactly one unless it raised before sending, and the UI has received one
\* record exactly when that POST was answered with success.
C20_CallbackRunsOnce ==
    /\ pipeline.callback_runs <= 1
    /\ pipeline.callback_runs > 0 => pipeline.callback_after_router
    /\ (pipeline.router_finished /\ pipeline.pc \in {"executor", "done"}) =>
          pipeline.callback_runs = 1
    /\ pipeline.posts <= 1
    /\ pipeline.delivered <= pipeline.posts
    /\ pipeline.callback_runs = 1 =>
          /\ pipeline.posts = (IF pipeline.raised THEN 0 ELSE 1)
          /\ pipeline.delivered = 1 <=> pipeline.sink_reply = "ok"

\* the run is over, the callback ran once and the UI accepted its record
C20_Witness ==
    /\ pipeline.pc = "done"
    /\ pipeline.router_finished
    /\ pipeline.callback_runs = 1
    /\ pipeline.delivered = 1

\* C22: post_results_callback returns normally, without raising, for every
\* shape of email_sent_result and every answer of the UI client.
C22_DispatcherNeverRaises ==
    pipeline # << >> => (pipeline.callback_runs > 0 => ~pipeline.raised)

\* C23: a run that ends with its task failed has still sent an update to the
\* UI client.
C23_FailedRunStillNotifies ==
    pipeline # << >> =>
        ((pipeline.pc = "done" /\ task_state["r1"] = "failed") => pipeline.posts > 0)

\* the 'status' of the payload send_sdr_update_to_ui posts
payload_status == "contacted"

\* C27: an update with status 'contacted' is posted only in a run whose
\* email_agent ran.
C27_ContactedOnlyAfterEmail ==
    pipeline # << >> =>
        ((pipeline.posts > 0 /\ payload_status = "contacted") =>
            pipeline.email_agent_runs > 0)

(***************************************************************************)
(* SpecParse: safe_json_parse.  A text is a sequence of tokens: "F" three  *)
(* backticks, "j" the word json, "n" a newline, "s" a space, "q" a double  *)
(* quote, "a" a letter, "[" and "]".  A Python value is a str (chars) or a *)
(* list (items).                                                           *)
(***************************************************************************)
MaxLen == 3             \* longest text given to safe_json_parse unfenced

Alphabet == {"F", "j", "n", "s", "q", "a", "[", "]"}

Whitespace == {"n", "s"}

\* characters json.dumps writes unescaped inside a string
PlainChars == {"a", "F", "s"}

PyStr(chars) == [type |-> "str", chars |-> chars, items |-> << >>]

PyList(items) == [type |-> "list", chars |-> << >>, items |-> items]

RECURSIVE Texts(_, _)
Texts(alphabet, n) ==
    IF n = 0 THEN {<< >>}
    ELSE LET shorter == Texts(alphabet, n - 1)
         IN shorter \cup { Append(t, ch) : t \in shorter, ch \in alphabet }

\* well-formed structured objects: strings, and lists nested up to two deep
JsonStrings == { PyStr(t) : t \in Texts(PlainChars, MaxLen - 1) }

JsonValues ==
    LET flat == JsonStrings \cup {PyList(<< >>)}
    IN flat \cup { PyList(<<x>>) : x \in flat } \cup { PyList(<<PyList(<<x>>)>>) : x \in flat }

\* json.dumps(X)
RECURSIVE dumps(_)
dumps(X) ==
    IF X.type = "str" THEN <<"q">> \o X.chars \o <<"q">>
    ELSE IF X.items = << >> THEN <<"[", "]">>
    ELSE <<"[">> \o dumps(X.items[1]) \o <<"]">>

\* the fenced block "```json\n" + text + "\n```"
fence(text) == <<"F", "j", "n">> \o text \o <<"n", "F">>

\* the first position from i on whose token is not whitespace (Len + 1 if none)
RECURSIVE skip_whitespace(_, _)
skip_whitespace(text, i) ==
    IF i <= Len(text) /\ text[i] \in Whitespace THEN skip_whitespace(text, i + 1) ELSE i

\* str.strip()
RECURSIVE rstrip(_)
rstrip(text) ==
    IF text # << >> /\ text[Len(text)] \in Whitespace
    THEN rstrip(SubSeq(text, 1, Len(text) - 1)) ELSE text

strip(text) == rstrip(SubSeq(text, skip_whitespace(text, 1), Len(text)))

\* re.search(r"```json\s*([\s\S]*?)\s*```", text): the leftmost opening
\* fence, all the whitespace after it, then the shortest group that is
\* followed by whitespace and three backticks
re_search(text) ==
    LET opens == { i \in 1..(Len(text) - 1) : text[i] = "F" /\ text[i + 1] = "j" }
    IN IF opens = {} THEN [matched |-> FALSE, group |-> << >>]
       ELSE LET open == CHOOSE i \in opens : \A k \in opens : i <= k
                start == skip_whitespace(text, open + 2)
                closes == { f \in start..Len(text) : text[f] = "F" }
            IN IF closes = {} THEN [matched |-> FALSE, group |-> << >>]
               ELSE LET close == CHOOSE f \in closes : \A k \in closes : f <= k
                        ends == { w \in start..close :
                                    \A k \in w..(close - 1) : text[k] \in Whitespace }
                        end == CHOOSE w \in ends : \A k \in ends : w <= k
                    IN [matched |-> TRUE, group |-> SubSeq(text, start, end - 1)]

\* one JSON value of text from position i: a string, an empty list or a list
\* of one value
RECURSIVE scan(_, _)
scan(text, i) ==
    LET fail == [ok |-> FALSE, value |-> PyList(<< >>), next |-> i]
    IN IF i > Len(text) THEN fail
       ELSE IF text[i] = "q"
       THEN LET quotes == { k \in (i + 1)..Len(text) : text[k] = "q" }
            IN IF quotes = {} THEN fail
               ELSE LET close == CHOOSE k \in quotes : \A m \in quotes : k <= m
                        chars == SubSeq(text, i + 1, close - 1)
                    IN IF \E k \in 1..Len(chars) : chars[k] = "n" THEN fail
                       ELSE [ok |-> TRUE, value |-> PyStr(chars), next |-> close + 1]
       ELSE IF text[i] = "["
       THEN LET first == skip_whitespace(text, i + 1)
            IN IF first <= Len(text) /\ text[first] = "]"
               THEN [ok |-> TRUE, value |-> PyList(<< >>), next |-> first + 1]
               ELSE LET item == scan(text, first)
                        after == skip_whitespace(text, item.next)
                    IN IF item.ok /\ after <= Len(text) /\ text[after] = "]"
                       THEN [ok |-> TRUE, value |-> PyList(<<item.value>>), next |-> after + 1]
                       ELSE fail
       ELSE fail

\* json.loads(text): ok = FALSE stands for json.JSONDecodeError
json_loads(text) ==
    LET doc == scan(text, skip_whitespace(text, 1))
    IN IF doc.ok /\ skip_whitespace(text, doc.next) = Len(text) + 1
       THEN [ok |-> TRUE, value |-> doc.value]
       ELSE [ok |-> FALSE, value |-> PyList(<< >>)]

\* safe_json_parse(value, key_name)
safe_json_parse(value) ==
    IF value.type # "str" THEN value
    ELSE LET stripped == strip(value.chars)
             match == re_search(stripped)
             cleaned_str == IF match.matched THEN match.group ELSE stripped
             loaded == json_loads(cleaned_str)
         IN IF loaded.ok THEN loaded.value ELSE value

\* the inputs: the fenced dump of each object, each object itself, and every
\* text up to MaxLen tokens
ParseInputs ==
    { [pc |-> "input", kind |-> "fenced", object |-> X,
       value |-> PyStr(fence(dumps(X))), result |-> PyList(<< >>)] : X \in JsonValues }
    \cup
    { [pc |-> "input", kind |-> "object", object |-> X,
       value |-> X, result |-> PyList(<< >>)] : X \in JsonValues \ JsonStrings }
    \cup
    { [pc |-> "input", kind |-> "text", object |-> PyStr(t),
       value |-> PyStr(t), result |-> PyList(<< >>)] : t \in Texts(Alphabet, MaxLen) }

InitParse ==
    /\ parse \in ParseInputs
    /\ tracking = << >>
    /\ ui = << >>
    /\ analyzer = << >>
    /\ tracker = << >>
    /\ task_state = << >>
    /\ loop = << >>
    /\ pipeline = << >>
    /\ phase = "finished"
    /\ phone_valid = TRUE
    /\ entries = MaxEntries
    /\ session_state = [call_result |-> Absent, email_sent_result |-> Str("")]
    /\ completed_function_calls = {}
    /\ phone_executions = 0
    /\ email_sends = 0
    /\ turn_invocations = 0
    /\ turn_executions = 0
    /\ turn_returns = << >>
    /\ last_return = NoReturn
    /\ pending_requests = << >>
    /\ active_sessions = {}
    /\ calls = << >>
    /\ state = << >>
    /\ next_id = 1
    /\ resolved = << >>

\* post_results_callback applies safe_json_parse to a state value
SafeJsonParse ==
    /\ parse.pc = "input"
    /\ parse' = [parse EXCEPT !.pc = "parsed", !.result = safe_json_parse(parse.value)]
    /\ UNCHANGED <<guardVars, brokerVars, workflowVars, tracking, ui, analyzer, tracker>>

NextParse == SafeJsonParse

SpecParse == InitParse /\ [][NextParse]_vars

\* C21: safe_json_parse returns X for the fenced JSON dump of every
\* well-formed object X, returns a non-string input as it is, and returns a
\* string unchanged when neither it nor its fenced block is valid JSON.
C21_DefensiveParseRoundTrip ==
    parse.pc = "parsed" =>
        /\ parse.kind = "fenced" => parse.result = parse.object
        /\ parse.value.type # "str" => parse.result = parse.value
        /\ (/\ parse.value.type = "str"
            /\ ~json_loads(strip(parse.value.chars)).ok
            /\ ~re_search(strip(parse.value.chars)).matched) => parse.result = parse.value

(***************************************************************************)
(* SpecTracking: the function-call tracking of SDRAgentExecutor.execute,   *)
(* for two runs served by the one executor of the server.                  *)
(***************************************************************************)
MaxEvents == 2          \* function-call parts the model follows per run

TrackedNames == {"phone_call", "gmail_service_account_tool", "create_pdf_offer"}

CallArgs == {"args1", "args2"}

FunctionCalls == [name : TrackedNames, args : CallArgs]

\* f"{fc.name}:{json.dumps(fc.args)}"
function_call_id(fc) == <<fc.name, fc.args>>

\* the keys of the session state that execute() sets, as the session starts
NewSessionState == [call_result |-> "<absent>", email_sent_result |-> "", offer_created |-> FALSE]

\* the branch of execute() for a function-call part: a call whose id is in
\* _completed_function_calls is skipped, else the id is added and the key for
\* the function name is set in the session state of the run
execute_function_call(fc, completed, sess) ==
    IF function_call_id(fc) \in completed
    THEN [completed |-> completed, state |-> sess]
    ELSE [completed |-> completed \cup {function_call_id(fc)},
          state |-> IF fc.name = "phone_call"
                    THEN [sess EXCEPT !.call_result = "completed"]
                    ELSE IF fc.name = "gmail_service_account_tool"
                    THEN [sess EXCEPT !.email_sent_result = "completed"]
                    ELSE IF fc.name = "create_pdf_offer"
                    THEN [sess EXCEPT !.offer_created = TRUE]
                    ELSE sess]

\* the session state an executor that served nothing else would leave after
\* the function calls of one run
RECURSIVE own_state(_, _, _)
own_state(events, completed, sess) ==
    IF events = << >> THEN sess
    ELSE LET tracked == execute_function_call(Head(events), completed, sess)
         IN own_state(Tail(events), tracked.completed, tracked.state)

InitTracking ==
    /\ tracking = [completed |-> {},
                   state |-> [r \in Runs |-> NewSessionState],
                   observed |-> [r \in Runs |-> << >>]]
    /\ parse = << >>
    /\ ui = << >>
    /\ analyzer = << >>
    /\ tracker = << >>
    /\ task_state = << >>
    /\ loop = << >>
    /\ pipeline = << >>
    /\ phase = "finished"
    /\ phone_valid = TRUE
    /\ entries = MaxEntries
    /\ session_state = [call_result |-> Absent, email_sent_result |-> Str("")]
    /\ completed_function_calls = {}
    /\ phone_executions = 0
    /\ email_sends = 0
    /\ turn_invocations = 0
    /\ turn_executions = 0
    /\ turn_returns = << >>
    /\ last_return = NoReturn
    /\ pending_requests = << >>
    /\ active_sessions = {}
    /\ calls = << >>
    /\ state = << >>
    /\ next_id = 1
    /\ resolved = << >>

\* a function-call part arrives in the event stream of run r
FunctionCallEvent(r, fc) ==
    /\ Len(tracking.observed[r]) < MaxEvents
    /\ LET tracked == execute_function_call(fc, tracking.completed, tracking.state[r])
       IN tracking' = [completed |-> tracked.completed,
                       state |-> [tracking.state EXCEPT ![r] = tracked.state],
                       observed |-> [tracking.observed EXCEPT ![r] = Append(@, fc)]]
    /\ UNCHANGED <<guardVars, brokerVars, workflowVars, parse, ui, analyzer, tracker>>

NextTracking == \E r \in Runs, fc \in FunctionCalls : FunctionCallEvent(r, fc)

SpecTracking == InitTracking /\ [][NextTracking]_vars

\* C24: the session state of each run is what the function calls of that run
\* alone produce, whatever the other run on the same executor has called.
C24_RunsIndependent ==
    tracking # << >> =>
        \A r \in Runs :
            tracking.state[r] = own_state(tracking.observed[r], {}, NewSessionState)

(***************************************************************************)
(* SpecUi: the UI client's lead-finding switch, its agent_callback         *)
(* endpoint and its relay of human input to the SDR agent.                 *)
(***************************************************************************)
MaxStarts == 3          \* accepted start_lead_finding requests the model follows

Cities == {"", "Boston"}

BusinessIds == {"b1", "b2"}

HumanIds == {"h1", "h2"}

AgentTypes == {"lead_finder", "sdr", "lead_manager", "calendar"}

\* data['name'] of an update: missing, a string, or a value that Business
\* does not validate as a str
DataNames == {"absent", "str", "non_str"}

AgentUpdates == [agent_type : AgentTypes, business_id : BusinessIds, name : DataNames]

NoResponse == [status_code |-> 0, status |-> "", message |-> ""]

\* agent_callback(update): the JSON response and app_state['businesses']
agent_callback_response(update, businesses) ==
    IF update.agent_type = "calendar"
    THEN [response |-> [status_code |-> 200, status |-> "success",
                        message |-> "Calendar notification sent"],
          businesses |-> businesses]
    ELSE IF update.business_id \in businesses
    THEN [response |-> [status_code |-> 200, status |-> "success",
                        message |-> "Business processed"],
          businesses |-> businesses]
    ELSE IF update.name = "absent"
    THEN [response |-> [status_code |-> 400, status |-> "error",
                        message |-> "Cannot create business: missing name"],
          businesses |-> businesses]
    ELSE IF update.name = "non_str"
    THEN [response |-> [status_code |-> 400, status |-> "error",
                        message |-> "Cannot create business: validation error"],
          businesses |-> businesses]
    ELSE [response |-> [status_code |-> 200, status |-> "success",
                        message |-> "Business processed"],
          businesses |-> businesses \cup {update.business_id}]

\* the answers the UI client can get from its POST to the SDR agent
AgentLinks == {"up", "connect_error"}

\* the status of human_input_callback of the SDR server: 400 without a url, 200 when
\* submit_human_response accepts, 404 otherwise
agent_resp_status_code(request_id, url, agent_pending) ==
    IF url = "" THEN 400
    ELSE IF request_id \in agent_pending THEN 200
    ELSE 404

InitUi ==
    /\ ui = [is_running |-> FALSE, processes |-> 0, starts |-> 0, last_start |-> 0,
             businesses |-> {},
             last_update |-> "none", unknown_business |-> FALSE, last_callback |-> NoResponse,
             human_input_requests |-> {}, agent_pending |-> {}, requested |-> {},
             last_submit |-> [found |-> FALSE, agent_status |-> 0, reported |-> "",
                              removed |-> FALSE]]
    /\ parse = << >>
    /\ tracking = << >>
    /\ analyzer = << >>
    /\ tracker = << >>
    /\ task_state = << >>
    /\ loop = << >>
    /\ pipeline = << >>
    /\ phase = "finished"
    /\ phone_valid = TRUE
    /\ entries = MaxEntries
    /\ session_state = [call_result |-> Absent, email_sent_result |-> Str("")]
    /\ completed_function_calls = {}
    /\ phone_executions = 0
    /\ email_sends = 0
    /\ turn_invocations = 0
    /\ turn_executions = 0
    /\ turn_returns = << >>
    /\ last_return = NoReturn
    /\ pending_requests = << >>
    /\ active_sessions = {}
    /\ calls = << >>
    /\ state = << >>
    /\ next_id = 1
    /\ resolved = << >>

UiUnchanged == UNCHANGED <<guardVars, brokerVars, workflowVars, parse, tracking, analyzer, tracker>>

\* POST /start_lead_finding
start_lead_finding(city) ==
    /\ ui.starts < MaxStarts
    /\ ui' = IF ui.is_running
             THEN [ui EXCEPT !.last_start = 400]
             ELSE IF city = ""
             THEN [ui EXCEPT !.last_start = 400]
             ELSE [ui EXCEPT !.is_running = TRUE, !.businesses = {},
                             !.processes = @ + 1, !.starts = @ + 1, !.last_start = 303]
    /\ UiUnchanged

\* run_lead_finding_process adds a found business to app_state
LeadFound(b) ==
    /\ ui.processes > 0
    /\ ui' = [ui EXCEPT !.businesses = @ \cup {b}]
    /\ UiUnchanged

\* run_lead_finding_process reaches its finally block and ends
ProcessFinished ==
    /\ ui.processes > 0
    /\ ui' = [ui EXCEPT !.processes = @ - 1, !.is_running = FALSE]
    /\ UiUnchanged

\* POST /reset
reset_state ==
    /\ ui' = [ui EXCEPT !.is_running = FALSE, !.businesses = {}]
    /\ UiUnchanged

\* POST /agent_callback
agent_callback(update) ==
    /\ LET answered == agent_callback_response(update, ui.businesses)
       IN ui' = [ui EXCEPT !.businesses = answered.businesses,
                           !.last_update = update.agent_type,
                           !.unknown_business = update.business_id \notin ui.businesses,
                           !.last_callback = answered.response]
    /\ UiUnchanged

\* human_creation creates a request and posts it: POST /api/human-input
receive_human_input_request(h) ==
    /\ h \notin ui.requested
    /\ ui' = [ui EXCEPT !.requested = @ \cup {h},
                        !.agent_pending = @ \cup {h},
                        !.human_input_requests = @ \cup {h}]
    /\ UiUnchanged

\* the SDR agent stops waiting for a request: timeout, cancellation, cleanup
AgentForgets(h) ==
    /\ h \in ui.agent_pending
    /\ ui' = [ui EXCEPT !.agent_pending = @ \ {h}]
    /\ UiUnchanged

\* POST /api/human-input/{request_id} on the UI client
submit_human_input_response(h, url, link) ==
    /\ IF h \notin ui.human_input_requests
       THEN ui' = [ui EXCEPT !.last_submit = [found |-> FALSE, agent_status |-> 0,
                                              reported |-> "Request not found",
                                              removed |-> FALSE]]
       ELSE LET agent_status == IF link = "connect_error" THEN 0
                                ELSE agent_resp_status_code(h, url, ui.agent_pending)
                success == agent_status = 200
            IN ui' = [ui EXCEPT
                        !.agent_pending = IF success THEN @ \ {h} ELSE @,
                        !.human_input_requests = IF success THEN @ \ {h} ELSE @,
                        !.last_submit = [found |-> TRUE, agent_status |-> agent_status,
                                         reported |-> "success", removed |-> success]]
    /\ UiUnchanged

NextUi ==
    \/ \E city \in Cities : start_lead_finding(city)
    \/ \E b \in BusinessIds : LeadFound(b)
    \/ ProcessFinished
    \/ reset_state
    \/ \E update \in AgentUpdates : agent_callback(update)
    \/ \E h \in HumanIds : receive_human_input_request(h)
    \/ \E h \in HumanIds : AgentForgets(h)
    \/ \E h \in HumanIds, url \in {"", "u1"}, link \in AgentLinks :
          submit_human_input_response(h, url, link)

SpecUi == InitUi /\ [][NextUi]_vars

\* C25: at most one run_lead_finding_process is active at any time.
C25_OneLeadFindingProcess ==
    ui # << >> => ui.processes <= 1

\* C26: an update of a non-calendar agent for a business id that is not in
\* app_state['businesses'] is answered 200 with status 'error' and a message
\* that the business was not found.
C26_UnknownBusinessAnswer ==
    ui # << >> =>
        ((ui.last_update \in AgentTypes \ {"calendar"} /\ ui.unknown_business) =>
            /\ ui.last_callback.status_code = 200
            /\ ui.last_callback.status = "error"
            /\ ui.last_callback.message = "Business not found")

\* C28: submit_human_input_response reports 'success' only when the SDR agent
\* answered 200, and removes the entry exactly when it did.
C28_SuccessOnlyIfAccepted ==
    ui # << >> =>
        /\ ui.last_submit.reported = "success" => ui.last_submit.agent_status = 200
        /\ ui.last_submit.found => (ui.last_submit.removed <=> ui.last_submit.agent_status = 200)

(***************************************************************************)
(* SpecAnalyzer: one run of EmailAnalyzer._run_async_impl over the unread  *)
(* emails of the session state.                                            *)
(***************************************************************************)
MaxEmails == 2          \* longest list of unread emails the model follows

\* an unread email: without a sender address; from a sender that is not a hot
\* lead; one whose check_hot_lead or analysis raises; from a hot lead without
\* or with a meeting request
EmailKinds == {"no_sender", "cold", "error", "hot_no_meeting", "hot_meeting"}

\* state['unread_emails']: absent, text that does not parse, or a list
UnreadEmails ==
    { [shape |-> "absent", emails |-> << >>], [shape |-> "unparsable", emails |-> << >>] }
    \cup { [shape |-> "list", emails |-> e] : e \in Texts(EmailKinds, MaxEmails) }

\* CalendarOrganizerAgent ends with a final response, or raises
OrganizerOutcomes == {"final_response", "raises"}

OrganizerResult == "CalendarOrganizerAgent final response"

SummaryMessage == "Analyzed emails. No further action needed at this time."

\* the value of state['meeting_result'] after the final event of a run that
\* ends before the loop: the assignment to ctx.session.state is overwritten
\* by the state_delta that __maybe_save_output_to_state puts on the event
early_exit(unread_emails) ==
    IF unread_emails.shape = "absent" THEN "No unread emails data found."
    ELSE IF unread_emails.shape = "unparsable" THEN "Email analysis failed"
    ELSE "No unread emails found to analyze."

InitAnalyzer ==
    /\ analyzer \in { [pc |-> "start", unread_emails |-> u, index |-> 1,
                       hot_leads_found |-> 0, calendar_request |-> "<absent>",
                       organizer_runs |-> 0, organizer_finished |-> FALSE,
                       meeting_result |-> "<absent>"] : u \in UnreadEmails }
    /\ parse = << >>
    /\ tracking = << >>
    /\ ui = << >>
    /\ tracker = << >>
    /\ task_state = << >>
    /\ loop = << >>
    /\ pipeline = << >>
    /\ phase = "finished"
    /\ phone_valid = TRUE
    /\ entries = MaxEntries
    /\ session_state = [call_result |-> Absent, email_sent_result |-> Str("")]
    /\ completed_function_calls = {}
    /\ phone_executions = 0
    /\ email_sends = 0
    /\ turn_invocations = 0
    /\ turn_executions = 0
    /\ turn_returns = << >>
    /\ last_return = NoReturn
    /\ pending_requests = << >>
    /\ active_sessions = {}
    /\ calls = << >>
    /\ state = << >>
    /\ next_id = 1
    /\ resolved = << >>

AnalyzerUnchanged == UNCHANGED <<guardVars, brokerVars, workflowVars, parse, tracking, ui, tracker>>

\* the run up to the loop: the three early returns, or calendar_request = ''
AnalyzerStart ==
    /\ analyzer.pc = "start"
    /\ analyzer' =
         IF analyzer.unread_emails.shape = "list" /\ analyzer.unread_emails.emails # << >>
         THEN [analyzer EXCEPT !.pc = "loop", !.calendar_request = ""]
         ELSE [analyzer EXCEPT !.pc = "done",
                               !.meeting_result = early_exit(analyzer.unread_emails)]
    /\ AnalyzerUnchanged

\* one pass of 'for email_data in emails_list' up to the sub-agent call
AnalyzeEmail ==
    /\ analyzer.pc = "loop"
    /\ analyzer.index <= Len(analyzer.unread_emails.emails)
    /\ LET email_data == analyzer.unread_emails.emails[analyzer.index]
       IN analyzer' =
            IF email_data = "hot_meeting"
            THEN [analyzer EXCEPT !.pc = "organizer", !.hot_leads_found = @ + 1,
                                  !.calendar_request = "meeting_request"]
            ELSE IF email_data = "hot_no_meeting"
            THEN [analyzer EXCEPT !.index = @ + 1, !.hot_leads_found = @ + 1]
            ELSE [analyzer EXCEPT !.index = @ + 1]
    /\ AnalyzerUnchanged

\* self.calendar_organizer_agent.run_async(ctx): its final response is saved
\* under 'meeting_result' and the loop is left by break; an exception is
\* caught by the handler of the loop body, which continues with the next email
CalendarOrganizer(outcome) ==
    /\ analyzer.pc = "organizer"
    /\ analyzer' =
         IF outcome = "final_response"
         THEN [analyzer EXCEPT !.pc = "summary", !.organizer_runs = @ + 1,
                               !.organizer_finished = TRUE,
                               !.meeting_result = OrganizerResult]
         ELSE [analyzer EXCEPT !.pc = "loop", !.index = @ + 1, !.organizer_runs = @ + 1]
    /\ AnalyzerUnchanged

\* the list is exhausted
LoopEnd ==
    /\ analyzer.pc = "loop"
    /\ analyzer.index > Len(analyzer.unread_emails.emails)
    /\ analyzer' = [analyzer EXCEPT !.pc = "summary"]
    /\ AnalyzerUnchanged

\* the code after the loop: meeting_result = "no_meeting_requests", then the
\* final event whose text is saved under output_key 'meeting_result'
Summary ==
    /\ analyzer.pc = "summary"
    /\ analyzer' = [analyzer EXCEPT !.pc = "done", !.meeting_result = SummaryMessage]
    /\ AnalyzerUnchanged

NextAnalyzer ==
    \/ AnalyzerStart
    \/ AnalyzeEmail
    \/ \E outcome \in OrganizerOutcomes : CalendarOrganizer(outcome)
    \/ LoopEnd
    \/ Summary

SpecAnalyzer == InitAnalyzer /\ [][NextAnalyzer]_vars

\* C29: one run of EmailAnalyzer invokes the calendar organizer at most once,
\* and a run that invoked it ends with the organizer's result under
\* 'meeting_result'.
C29_OrganizerOnceAndResultKept ==
    analyzer # << >> =>
        /\ analyzer.organizer_runs <= 1
        /\ (analyzer.pc = "done" /\ analyzer.organizer_finished) =>
               analyzer.meeting_result = OrganizerResult

(***************************************************************************)
(* SpecTracker: EmailReplyTracker._check_for_replies run by the periodic   *)
(* loop and by the task that force_check creates.  The tracker suspends    *)
(* only while it awaits on_confirmation / on_rejection.                    *)
(***************************************************************************)
MaxChecks == 2          \* runs of _check_for_replies the model follows per task

Checkers == {"loop", "force_check"}

Leads == {"lead1", "lead2"}

EmailIds == <<"e1", "e2">>

ResponseTypes == {"positive", "negative", "unclear"}

\* the replies in the inbox: the lead each one names and what it says
Inboxes == [{"e1", "e2"} -> [lead : Leads, response : ResponseTypes]]

NoLead == "<None>"

\* _match_reply_to_lead: the pending lead the reply names, else the only
\* pending lead, else None
match_reply_to_lead(reply, pending_leads) ==
    IF reply.lead \in pending_leads THEN reply.lead
    ELSE IF Cardinality(pending_leads) = 1 THEN CHOOSE l \in pending_leads : TRUE
    ELSE NoLead

IdleChecker == [pc |-> "idle", position |-> 1, email_id |-> "", lead |-> NoLead, checks |-> 0]

InitTracker ==
    /\ tracker \in { [inbox |-> inbox, pending_leads |-> Leads, processed_emails |-> {},
                      checker |-> [c \in Checkers |-> IdleChecker],
                      on_confirmation |-> [l \in Leads |-> 0],
                      on_rejection |-> [l \in Leads |-> 0],
                      processed |-> [e \in {"e1", "e2"} |-> 0]] : inbox \in Inboxes }
    /\ parse = << >>
    /\ tracking = << >>
    /\ ui = << >>
    /\ analyzer = << >>
    /\ task_state = << >>
    /\ loop = << >>
    /\ pipeline = << >>
    /\ phase = "finished"
    /\ phone_valid = TRUE
    /\ entries = MaxEntries
    /\ session_state = [call_result |-> Absent, email_sent_result |-> Str("")]
    /\ completed_function_calls = {}
    /\ phone_executions = 0
    /\ email_sends = 0
    /\ turn_invocations = 0
    /\ turn_executions = 0
    /\ turn_returns = << >>
    /\ last_return = NoReturn
    /\ pending_requests = << >>
    /\ active_sessions = {}
    /\ calls = << >>
    /\ state = << >>
    /\ next_id = 1
    /\ resolved = << >>

TrackerUnchanged == UNCHANGED <<guardVars, brokerVars, workflowVars, parse, tracking, ui, analyzer>>

\* _check_for_replies starts: it returns at once without pending leads, else
\* it searches the inbox
check_for_replies(c) ==
    /\ tracker.checker[c].pc = "idle"
    /\ tracker.checker[c].checks < MaxChecks
    /\ tracker' = [tracker EXCEPT
                     !.checker[c] = IF tracker.pending_leads = {}
                                    THEN [@ EXCEPT !.checks = @ + 1]
                                    ELSE [@ EXCEPT !.pc = "scan", !.position = 1]]
    /\ TrackerUnchanged

\* one pass of 'for email_id in email_ids' up to the first await: a processed
\* email is skipped; else _process_email_response matches the reply and for a
\* positive or negative one calls on_confirmation or on_rejection
process_email_response(c) ==
    /\ tracker.checker[c].pc = "scan"
    /\ tracker.checker[c].position <= Len(EmailIds)
    /\ LET email_id == EmailIds[tracker.checker[c].position]
           reply == tracker.inbox[email_id]
           lead == match_reply_to_lead(reply, tracker.pending_leads)
       IN IF email_id \in tracker.processed_emails
          THEN tracker' = [tracker EXCEPT !.checker[c].position = @ + 1]
          ELSE IF lead = NoLead \/ reply.response = "unclear"
          THEN tracker' = [tracker EXCEPT !.checker[c].position = @ + 1,
                                          !.processed[email_id] = @ + 1,
                                          !.processed_emails = @ \cup {email_id}]
          ELSE tracker' = [tracker EXCEPT
                             !.checker[c].pc = "callback",
                             !.checker[c].email_id = email_id,
                             !.checker[c].lead = lead,
                             !.processed[email_id] = @ + 1,
                             !.on_confirmation[lead] =
                                 IF reply.response = "positive" THEN @ + 1 ELSE @,
                             !.on_rejection[lead] =
                                 IF reply.response = "negative" THEN @ + 1 ELSE @]
    /\ TrackerUnchanged

\* the awaited callback returns: the lead is deleted from _pending_leads and
\* the email id is added to _processed_emails
handle_returns(c) ==
    /\ tracker.checker[c].pc = "callback"
    /\ tracker' = [tracker EXCEPT
                     !.pending_leads = @ \ {tracker.checker[c].lead},
                     !.processed_emails = @ \cup {tracker.checker[c].email_id},
                     !.checker[c] = [@ EXCEPT !.pc = "scan", !.position = @ + 1,
                                              !.email_id = "", !.lead = NoLead]]
    /\ TrackerUnchanged

\* the list of email ids is exhausted: _check_for_replies returns
check_returns(c) ==
    /\ tracker.checker[c].pc = "scan"
    /\ tracker.checker[c].position > Len(EmailIds)
    /\ tracker' = [tracker EXCEPT !.checker[c] = [@ EXCEPT !.pc = "idle", !.checks = @ + 1]]
    /\ TrackerUnchanged

NextTracker ==
    \/ \E c \in Checkers : check_for_replies(c)
    \/ \E c \in Checkers : process_email_response(c)
    \/ \E c \in Checkers : handle_returns(c)
    \/ \E c \in Checkers : check_returns(c)

SpecTracker == InitTracker /\ [][NextTracker]_vars

\* C30: for every registered lead at most one of on_confirmation and
\* on_rejection is called, at most once, and every inbox email is processed
\* at most once, however the periodic loop and force_check interleave.
C30_EachLeadHandledOnce ==
    tracker # << >> =>
        /\ \A l \in Leads : tracker.on_confirmation[l] + tracker.on_rejection[l] <= 1
        /\ \A e \in DOMAIN tracker.processed : tracker.processed[e] <= 1

====
